---- MODULE Spec2Model ----
(***************************************************************************)
(* State-machine model of contracts/FringeStageVote.sol: the session       *)
(* registry, the vote aggregation over euint16 accumulators and the        *)
(* decryption-request / result-storage handshake.                          *)
(*                                                                         *)
(* The FHE runtime (@fhevm/solidity) is an external library.  A ciphertext *)
(* is modelled as a record [handle, plain, allowed]:                       *)
(*   handle  - its on-chain identity.  The runtime derives a handle from   *)
(*             the operation and its operands, so a handle is identified   *)
(*             by the computation that produced it: <<session, dimension,  *)
(*             version>> for an accumulator after `version` additions;     *)
(*   plain   - the value a permitted party obtains by decrypting it;       *)
(*   allowed - the accounts the ACL permits on that handle.                *)
(* The ACL is keyed by handle: a ciphertext produced by FHE.add has a new  *)
(* handle and starts with no permitted account.  Permissions on handles    *)
(* the contract no longer stores are not tracked; no operation of the      *)
(* contract reads or extends them.  Encrypted inputs are taken to carry    *)
(* valid proofs.                                                           *)
(***************************************************************************)
EXTENDS Integers, Sequences, FiniteSets, TLC

(* ------------------------------ bounds -------------------------------- *)
NumAddresses == 2
MaxTime == 3

(* ------------------------- program constants -------------------------- *)
MIN_VOTES_FOR_DECRYPTION == 1
Uint16Modulus == 65536

(* ------------------------------ domains ------------------------------- *)
Address == 1..NumAddresses
ZeroAddress == 0
ContractAddress == NumAddresses + 1
\* the session slots of the _sessions mapping that are modelled
SessionIds == {0, 1}
\* the ids createSession allocates in Spec; a call on id 0 before the
\* session is created is a call on a session that does not exist
SingleSession == {0}
\* rating vectors (plotTension, performance, stageDesign, pacing) a voter submits;
\* the contract checks no range, so any 16-bit value is accepted
RatingInputs == { <<40000, 100, 65535, 85>> }
\* totals an authorized party submits to storeDecryptedResults
TotalInputs == { <<80, 85, 75, 90>>, <<255, 263, 245, 262>> }
Titles == { "Hamlet Preview" }
Venues == { "Small Theater" }
\* startTime 0 is the value the contract reads as "no such session"
StartTimes == {0, 1, MaxTime - 1}
EndTimes == {MaxTime - 1}

VARIABLES
    blockTimestamp,        \* block.timestamp
    _nextSessionId,
    _sessions,
    _decryptedResults,
    _hasVoted,
    _authorizedTheaters,
    voteLog,               \* history: per session, the number of successful submitVote
                           \* calls and the exact sums of the ratings they carried
    last                   \* the last transaction: operation, arguments, outcome

stateVars == <<_nextSessionId, _sessions, _decryptedResults, _hasVoted,
               _authorizedTheaters, voteLog>>
vars == <<blockTimestamp, _nextSessionId, _sessions, _decryptedResults, _hasVoted,
          _authorizedTheaters, voteLog, last>>

(* --------------------------- FHE runtime ------------------------------ *)
\* the zero value of an euint16 storage slot
UninitializedEuint16 == [handle |-> <<0, 0, 0>>, plain |-> 0, allowed |-> {}]

\* dimensions of a rating
PlotTension == 1
Performance == 2
StageDesign == 3
Pacing == 4

\* the handle of a ciphertext supplied by a client for one dimension of a vote
ExternalHandle(dim) == <<-1, dim, 0>>

\* the handle of the result of an addition whose left operand has handle h
SumHandle(h) == <<h[1], h[2], h[3] + 1>>

FHE_asEuint16(value, h) ==
    [handle |-> h, plain |-> value % Uint16Modulus, allowed |-> {}]

\* the verified input is usable by the calling contract for the transaction
FHE_fromExternal(value, dim) ==
    [handle |-> ExternalHandle(dim), plain |-> value % Uint16Modulus,
     allowed |-> {ContractAddress}]

\* mutant of FHE_add: the sum inherits the permissions of the first operand
FHE_add_keepsAcl(a, b) ==
    [handle |-> SumHandle(a.handle), plain |-> (a.plain + b.plain) % Uint16Modulus,
     allowed |-> a.allowed]

FHE_add(a, b) ==
    [handle |-> SumHandle(a.handle), plain |-> (a.plain + b.plain) % Uint16Modulus,
     allowed |-> {}]

FHE_allow(ct, account) == [ct EXCEPT !.allowed = @ \cup {account}]

FHE_allowThis(ct) == FHE_allow(ct, ContractAddress)

FHE_isAllowed(ct, account) == account \in ct.allowed

(* ---------------------------- storage --------------------------------- *)
\* the zero value of a Session storage slot
EmptySession ==
    [ title |-> "", venue |-> "", startTime |-> 0, endTime |-> 0,
      theaterCompany |-> ZeroAddress, voteCount |-> 0, isActive |-> FALSE,
      decryptionRequested |-> FALSE, decryptionCompleted |-> FALSE,
      aggregatedPlotTension |-> UninitializedEuint16,
      aggregatedPerformance |-> UninitializedEuint16,
      aggregatedStageDesign |-> UninitializedEuint16,
      aggregatedPacing |-> UninitializedEuint16 ]

EmptyResults ==
    [ totalPlotTension |-> 0, totalPerformance |-> 0,
      totalStageDesign |-> 0, totalPacing |-> 0 ]

NoCall == [op |-> "none", sessionId |-> 0, sender |-> ZeroAddress, result |-> "ok"]

Init ==
    /\ blockTimestamp = 1
    /\ _nextSessionId = 0
    /\ _sessions = [id \in SessionIds |-> EmptySession]
    /\ _decryptedResults = [id \in SessionIds |-> EmptyResults]
    /\ _hasVoted = [id \in SessionIds |-> [a \in Address |-> FALSE]]
    /\ _authorizedTheaters = [id \in SessionIds |-> [a \in Address |-> FALSE]]
    /\ voteLog = [id \in SessionIds |-> [count |-> 0, sums |-> <<0, 0, 0, 0>>]]
    /\ last = NoCall

Call(op, sessionId, sender, result) ==
    [op |-> op, sessionId |-> sessionId, sender |-> sender, result |-> result]

\* a reverted transaction: every storage write and ACL grant is rolled back
Revert(op, sessionId, sender, err) ==
    /\ last' = Call(op, sessionId, sender, err)
    /\ UNCHANGED <<blockTimestamp, stateVars>>

\* a successful transaction whose event is observed: `arg` are its plaintext
\* arguments and `event` the values of the event it emits
Emit(op, sessionId, sender, arg, event) ==
    [op |-> op, sessionId |-> sessionId, sender |-> sender, result |-> "ok",
     arg |-> arg, event |-> event]

(* --------------------------- createSession ---------------------------- *)
\* mutant of createSession: the counter is incremented before it is read (ids start at one)
createSession_preIncrement(sender, title, venue, startTime, endTime) ==
    /\ LET sessionId == _nextSessionId + 1
           zeroPlotTension == FHE_asEuint16(0, <<sessionId, PlotTension, 0>>)
           zeroPerformance == FHE_asEuint16(0, <<sessionId, Performance, 0>>)
           zeroStageDesign == FHE_asEuint16(0, <<sessionId, StageDesign, 0>>)
           zeroPacing == FHE_asEuint16(0, <<sessionId, Pacing, 0>>)
       IN
       /\ _nextSessionId' = _nextSessionId + 1
       /\ _sessions' = [_sessions EXCEPT ![sessionId] =
              [@ EXCEPT !.title = title, !.venue = venue,
                        !.startTime = startTime, !.endTime = endTime,
                        !.theaterCompany = sender, !.isActive = TRUE,
                        !.aggregatedPlotTension = FHE_allowThis(zeroPlotTension),
                        !.aggregatedPerformance = FHE_allowThis(zeroPerformance),
                        !.aggregatedStageDesign = FHE_allowThis(zeroStageDesign),
                        !.aggregatedPacing = FHE_allowThis(zeroPacing)]]
       /\ _authorizedTheaters' = [_authorizedTheaters EXCEPT ![sessionId][sender] = TRUE]
       /\ last' = Call("createSession", sessionId, sender, "ok")
       /\ UNCHANGED <<blockTimestamp, _decryptedResults, _hasVoted, voteLog>>

\* mutant of createSession: the creator is not added to the authorization set
createSession_noAuthorize(sender, title, venue, startTime, endTime) ==
    /\ LET sessionId == _nextSessionId
           zeroPlotTension == FHE_asEuint16(0, <<sessionId, PlotTension, 0>>)
           zeroPerformance == FHE_asEuint16(0, <<sessionId, Performance, 0>>)
           zeroStageDesign == FHE_asEuint16(0, <<sessionId, StageDesign, 0>>)
           zeroPacing == FHE_asEuint16(0, <<sessionId, Pacing, 0>>)
       IN
       /\ _nextSessionId' = _nextSessionId + 1
       /\ _sessions' = [_sessions EXCEPT ![sessionId] =
              [@ EXCEPT !.title = title, !.venue = venue,
                        !.startTime = startTime, !.endTime = endTime,
                        !.theaterCompany = sender, !.isActive = TRUE,
                        !.aggregatedPlotTension = FHE_allowThis(zeroPlotTension),
                        !.aggregatedPerformance = FHE_allowThis(zeroPerformance),
                        !.aggregatedStageDesign = FHE_allowThis(zeroStageDesign),
                        !.aggregatedPacing = FHE_allowThis(zeroPacing)]]
       /\ _authorizedTheaters' = _authorizedTheaters
       /\ last' = Call("createSession", sessionId, sender, "ok")
       /\ UNCHANGED <<blockTimestamp, _decryptedResults, _hasVoted, voteLog>>

createSession(sender, title, venue, startTime, endTime) ==
    /\ LET sessionId == _nextSessionId
           zeroPlotTension == FHE_asEuint16(0, <<sessionId, PlotTension, 0>>)
           zeroPerformance == FHE_asEuint16(0, <<sessionId, Performance, 0>>)
           zeroStageDesign == FHE_asEuint16(0, <<sessionId, StageDesign, 0>>)
           zeroPacing == FHE_asEuint16(0, <<sessionId, Pacing, 0>>)
       IN
       /\ _nextSessionId' = _nextSessionId + 1
       /\ _sessions' = [_sessions EXCEPT ![sessionId] =
              [@ EXCEPT !.title = title, !.venue = venue,
                        !.startTime = startTime, !.endTime = endTime,
                        !.theaterCompany = sender, !.isActive = TRUE,
                        !.aggregatedPlotTension = FHE_allowThis(zeroPlotTension),
                        !.aggregatedPerformance = FHE_allowThis(zeroPerformance),
                        !.aggregatedStageDesign = FHE_allowThis(zeroStageDesign),
                        !.aggregatedPacing = FHE_allowThis(zeroPacing)]]
       /\ _authorizedTheaters' = [_authorizedTheaters EXCEPT ![sessionId][sender] = TRUE]
       /\ last' = Call("createSession", sessionId, sender, "ok")
       /\ UNCHANGED <<blockTimestamp, _decryptedResults, _hasVoted, voteLog>>

(* ----------------------------- submitVote --------------------------- *)
\* mutant of _validateVote: the upper end of the voting window is not checked
_validateVote_noEndCheck(sessionId, sender) ==
    LET session == _sessions[sessionId] IN
    IF session.startTime = 0 THEN "SessionNotFound"
    ELSE IF ~session.isActive THEN "SessionNotActive"
    ELSE IF blockTimestamp < session.startTime THEN "SessionNotActive"
    ELSE IF _hasVoted[sessionId][sender] THEN "AlreadyVoted"
    ELSE "ok"

\* mutant of _validateVote: the has-voted flag is not checked
_validateVote_noDuplicateCheck(sessionId, sender) ==
    LET session == _sessions[sessionId] IN
    IF session.startTime = 0 THEN "SessionNotFound"
    ELSE IF ~session.isActive THEN "SessionNotActive"
    ELSE IF blockTimestamp < session.startTime \/ blockTimestamp > session.endTime
         THEN "SessionNotActive"
    ELSE "ok"

\* mutant of _validateVote: the has-voted flag is checked before the time window
_validateVote_votedBeforeWindow(sessionId, sender) ==
    LET session == _sessions[sessionId] IN
    IF session.startTime = 0 THEN "SessionNotFound"
    ELSE IF ~session.isActive THEN "SessionNotActive"
    ELSE IF _hasVoted[sessionId][sender] THEN "AlreadyVoted"
    ELSE IF blockTimestamp < session.startTime \/ blockTimestamp > session.endTime
         THEN "SessionNotActive"
    ELSE "ok"

\* mutant of _validateVote: the active flag is not checked
_validateVote_noActiveCheck(sessionId, sender) ==
    LET session == _sessions[sessionId] IN
    IF session.startTime = 0 THEN "SessionNotFound"
    ELSE IF blockTimestamp < session.startTime \/ blockTimestamp > session.endTime
         THEN "SessionNotActive"
    ELSE IF _hasVoted[sessionId][sender] THEN "AlreadyVoted"
    ELSE "ok"

\* the error _validateVote reverts with, or "ok"
_validateVote(sessionId, sender) ==
    LET session == _sessions[sessionId] IN
    IF session.startTime = 0 THEN "SessionNotFound"
    ELSE IF ~session.isActive THEN "SessionNotActive"
    ELSE IF blockTimestamp < session.startTime \/ blockTimestamp > session.endTime
         THEN "SessionNotActive"
    ELSE IF _hasVoted[sessionId][sender] THEN "AlreadyVoted"
    ELSE "ok"

\* mutant of _processVote: the caller is not marked as having voted
_processVote_noFlag(sessionId, sender, ratings) ==
    LET session == _sessions[sessionId]
        encryptedPlotTension == FHE_fromExternal(ratings[1], PlotTension)
        encryptedPerformance == FHE_fromExternal(ratings[2], Performance)
        encryptedStageDesign == FHE_fromExternal(ratings[3], StageDesign)
        encryptedPacing == FHE_fromExternal(ratings[4], Pacing)
        newPlotTension == FHE_add(session.aggregatedPlotTension, encryptedPlotTension)
        newPerformance == FHE_add(session.aggregatedPerformance, encryptedPerformance)
        newStageDesign == FHE_add(session.aggregatedStageDesign, encryptedStageDesign)
        newPacing == FHE_add(session.aggregatedPacing, encryptedPacing)
    IN
    /\ _sessions' = [_sessions EXCEPT ![sessionId] =
           [@ EXCEPT !.aggregatedPlotTension = FHE_allowThis(newPlotTension),
                     !.aggregatedPerformance = FHE_allowThis(newPerformance),
                     !.aggregatedStageDesign = FHE_allowThis(newStageDesign),
                     !.aggregatedPacing = FHE_allowThis(newPacing),
                     !.voteCount = @ + 1]]
    /\ _hasVoted' = _hasVoted

\* mutant of _processVote: the contract's permission on the new sums is not granted
_processVote_noAllowThis(sessionId, sender, ratings) ==
    LET session == _sessions[sessionId]
        encryptedPlotTension == FHE_fromExternal(ratings[1], PlotTension)
        encryptedPerformance == FHE_fromExternal(ratings[2], Performance)
        encryptedStageDesign == FHE_fromExternal(ratings[3], StageDesign)
        encryptedPacing == FHE_fromExternal(ratings[4], Pacing)
        newPlotTension == FHE_add(session.aggregatedPlotTension, encryptedPlotTension)
        newPerformance == FHE_add(session.aggregatedPerformance, encryptedPerformance)
        newStageDesign == FHE_add(session.aggregatedStageDesign, encryptedStageDesign)
        newPacing == FHE_add(session.aggregatedPacing, encryptedPacing)
    IN
    /\ _sessions' = [_sessions EXCEPT ![sessionId] =
           [@ EXCEPT !.aggregatedPlotTension = newPlotTension,
                     !.aggregatedPerformance = newPerformance,
                     !.aggregatedStageDesign = newStageDesign,
                     !.aggregatedPacing = newPacing,
                     !.voteCount = @ + 1]]
    /\ _hasVoted' = [_hasVoted EXCEPT ![sessionId][sender] = TRUE]

\* mutant of _processVote: the caller is flagged as voter in every session
_processVote_flagEverywhere(sessionId, sender, ratings) ==
    LET session == _sessions[sessionId]
        encryptedPlotTension == FHE_fromExternal(ratings[1], PlotTension)
        encryptedPerformance == FHE_fromExternal(ratings[2], Performance)
        encryptedStageDesign == FHE_fromExternal(ratings[3], StageDesign)
        encryptedPacing == FHE_fromExternal(ratings[4], Pacing)
        newPlotTension == FHE_add(session.aggregatedPlotTension, encryptedPlotTension)
        newPerformance == FHE_add(session.aggregatedPerformance, encryptedPerformance)
        newStageDesign == FHE_add(session.aggregatedStageDesign, encryptedStageDesign)
        newPacing == FHE_add(session.aggregatedPacing, encryptedPacing)
    IN
    /\ _sessions' = [_sessions EXCEPT ![sessionId] =
           [@ EXCEPT !.aggregatedPlotTension = FHE_allowThis(newPlotTension),
                     !.aggregatedPerformance = FHE_allowThis(newPerformance),
                     !.aggregatedStageDesign = FHE_allowThis(newStageDesign),
                     !.aggregatedPacing = FHE_allowThis(newPacing),
                     !.voteCount = @ + 1]]
    /\ _hasVoted' = [id \in SessionIds |-> [_hasVoted[id] EXCEPT ![sender] = TRUE]]

\* _processVote: the state after the four additions, the flag, the counter and the grants
_processVote(sessionId, sender, ratings) ==
    LET session == _sessions[sessionId]
        encryptedPlotTension == FHE_fromExternal(ratings[1], PlotTension)
        encryptedPerformance == FHE_fromExternal(ratings[2], Performance)
        encryptedStageDesign == FHE_fromExternal(ratings[3], StageDesign)
        encryptedPacing == FHE_fromExternal(ratings[4], Pacing)
        newPlotTension == FHE_add(session.aggregatedPlotTension, encryptedPlotTension)
        newPerformance == FHE_add(session.aggregatedPerformance, encryptedPerformance)
        newStageDesign == FHE_add(session.aggregatedStageDesign, encryptedStageDesign)
        newPacing == FHE_add(session.aggregatedPacing, encryptedPacing)
    IN
    /\ _sessions' = [_sessions EXCEPT ![sessionId] =
           [@ EXCEPT !.aggregatedPlotTension = FHE_allowThis(newPlotTension),
                     !.aggregatedPerformance = FHE_allowThis(newPerformance),
                     !.aggregatedStageDesign = FHE_allowThis(newStageDesign),
                     !.aggregatedPacing = FHE_allowThis(newPacing),
                     !.voteCount = @ + 1]]
    /\ _hasVoted' = [_hasVoted EXCEPT ![sessionId][sender] = TRUE]

\* the FHE executor lets the contract add only ciphertexts it is allowed on
CanAggregate(sessionId) ==
    LET session == _sessions[sessionId] IN
    /\ FHE_isAllowed(session.aggregatedPlotTension, ContractAddress)
    /\ FHE_isAllowed(session.aggregatedPerformance, ContractAddress)
    /\ FHE_isAllowed(session.aggregatedStageDesign, ContractAddress)
    /\ FHE_isAllowed(session.aggregatedPacing, ContractAddress)

\* mutant of submitVote: the has-voted flag written by a rejected vote survives
submitVote_flagOnReject(sender, sessionId, ratings) ==
    LET err == IF _validateVote(sessionId, sender) # "ok" THEN _validateVote(sessionId, sender)
               ELSE IF ~CanAggregate(sessionId) THEN "ACLNotAllowed"
               ELSE "ok"
    IN
    IF err # "ok"
    THEN /\ _hasVoted' = [_hasVoted EXCEPT ![sessionId][sender] = TRUE]
         /\ last' = Call("submitVote", sessionId, sender, err)
         /\ UNCHANGED <<blockTimestamp, _nextSessionId, _sessions, _decryptedResults,
                        _authorizedTheaters, voteLog>>
    ELSE /\ _processVote(sessionId, sender, ratings)
         /\ voteLog' = [voteLog EXCEPT ![sessionId] =
                [ count |-> @.count + 1,
                  sums |-> [d \in 1..4 |-> @.sums[d] + ratings[d]] ]]
         /\ last' = Call("submitVote", sessionId, sender, "ok")
         /\ UNCHANGED <<blockTimestamp, _nextSessionId, _decryptedResults, _authorizedTheaters>>

\* mutant of submitVote: the event carries the vote count read before the increment
submitVote_eventBeforeIncrement(sender, sessionId, ratings) ==
    LET err == _validateVote(sessionId, sender) IN
    IF err # "ok" THEN Revert("submitVote", sessionId, sender, err)
    ELSE IF ~CanAggregate(sessionId)
         THEN Revert("submitVote", sessionId, sender, "ACLNotAllowed")
    ELSE /\ _processVote(sessionId, sender, ratings)
         /\ voteLog' = [voteLog EXCEPT ![sessionId] =
                [ count |-> @.count + 1,
                  sums |-> [d \in 1..4 |-> @.sums[d] + ratings[d]] ]]
         /\ last' = Emit("submitVote", sessionId, sender, <<>>,
                         [voter |-> sender,
                          newVoteCount |-> _sessions[sessionId].voteCount])
         /\ UNCHANGED <<blockTimestamp, _nextSessionId, _decryptedResults, _authorizedTheaters>>

submitVote(sender, sessionId, ratings) ==
    LET err == _validateVote(sessionId, sender) IN
    IF err # "ok" THEN Revert("submitVote", sessionId, sender, err)
    ELSE IF ~CanAggregate(sessionId)
         THEN Revert("submitVote", sessionId, sender, "ACLNotAllowed")
    ELSE /\ _processVote(sessionId, sender, ratings)
         /\ voteLog' = [voteLog EXCEPT ![sessionId] =
                [ count |-> @.count + 1,
                  sums |-> [d \in 1..4 |-> @.sums[d] + ratings[d]] ]]
         /\ last' = Emit("submitVote", sessionId, sender, <<>>,
                         [voter |-> sender,
                          newVoteCount |-> _sessions'[sessionId].voteCount])
         /\ UNCHANGED <<blockTimestamp, _nextSessionId, _decryptedResults, _authorizedTheaters>>

(* --------------------------- authorizeTheater ------------------------- *)
\* the error authorizeTheater reverts with, or "ok"
authorizeTheaterError(sessionId, sender) ==
    LET session == _sessions[sessionId] IN
    IF session.startTime = 0 THEN "SessionNotFound"
    ELSE IF sender # session.theaterCompany THEN "OnlyTheaterCompany"
    ELSE "ok"

\* the four FHE.allow grants on a session's current accumulators
AllowAggregates(session, account) ==
    [session EXCEPT !.aggregatedPlotTension = FHE_allow(@, account),
                    !.aggregatedPerformance = FHE_allow(@, account),
                    !.aggregatedStageDesign = FHE_allow(@, account),
                    !.aggregatedPacing = FHE_allow(@, account)]

\* mutant of authorizeTheater: the authorization entry is toggled instead of set
authorizeTheater_toggle(sender, sessionId, theaterAddress) ==
    LET err == authorizeTheaterError(sessionId, sender) IN
    IF err # "ok" THEN Revert("authorizeTheater", sessionId, sender, err)
    ELSE /\ _authorizedTheaters' = [_authorizedTheaters EXCEPT ![sessionId][theaterAddress] = ~@]
         /\ _sessions' = [_sessions EXCEPT ![sessionId] = AllowAggregates(@, theaterAddress)]
         /\ last' = Call("authorizeTheater", sessionId, sender, "ok")
         /\ UNCHANGED <<blockTimestamp, _nextSessionId, _decryptedResults,
                        _hasVoted, voteLog>>

authorizeTheater(sender, sessionId, theaterAddress) ==
    LET err == authorizeTheaterError(sessionId, sender) IN
    IF err # "ok" THEN Revert("authorizeTheater", sessionId, sender, err)
    ELSE /\ _authorizedTheaters' = [_authorizedTheaters EXCEPT ![sessionId][theaterAddress] = TRUE]
         /\ _sessions' = [_sessions EXCEPT ![sessionId] = AllowAggregates(@, theaterAddress)]
         /\ last' = Call("authorizeTheater", sessionId, sender, "ok")
         /\ UNCHANGED <<blockTimestamp, _nextSessionId, _decryptedResults,
                        _hasVoted, voteLog>>

(* --------------------------- requestDecryption ------------------------ *)
\* mutant of requestDecryptionError: the isActive flag alone blocks the request
requestDecryptionError_flagOnly(sessionId, sender) ==
    LET session == _sessions[sessionId] IN
    IF session.startTime = 0 THEN "SessionNotFound"
    ELSE IF ~_authorizedTheaters[sessionId][sender] THEN "UnauthorizedTheater"
    ELSE IF session.isActive THEN "SessionStillActive"
    ELSE IF session.voteCount < MIN_VOTES_FOR_DECRYPTION THEN "InsufficientVotes"
    ELSE IF session.decryptionRequested THEN "DecryptionAlreadyRequested"
    ELSE "ok"

\* mutant of requestDecryptionError: the request needs both a closed flag and a passed endTime
requestDecryptionError_bothNeeded(sessionId, sender) ==
    LET session == _sessions[sessionId] IN
    IF session.startTime = 0 THEN "SessionNotFound"
    ELSE IF ~_authorizedTheaters[sessionId][sender] THEN "UnauthorizedTheater"
    ELSE IF session.isActive \/ blockTimestamp <= session.endTime THEN "SessionStillActive"
    ELSE IF session.voteCount < MIN_VOTES_FOR_DECRYPTION THEN "InsufficientVotes"
    ELSE IF session.decryptionRequested THEN "DecryptionAlreadyRequested"
    ELSE "ok"

\* mutant of requestDecryptionError: the vote threshold is compared with <=
requestDecryptionError_offByOne(sessionId, sender) ==
    LET session == _sessions[sessionId] IN
    IF session.startTime = 0 THEN "SessionNotFound"
    ELSE IF ~_authorizedTheaters[sessionId][sender] THEN "UnauthorizedTheater"
    ELSE IF session.isActive /\ blockTimestamp <= session.endTime THEN "SessionStillActive"
    ELSE IF session.voteCount <= MIN_VOTES_FOR_DECRYPTION THEN "InsufficientVotes"
    ELSE IF session.decryptionRequested THEN "DecryptionAlreadyRequested"
    ELSE "ok"

\* mutant of requestDecryptionError: the still-active check is missing
requestDecryptionError_noActiveCheck(sessionId, sender) ==
    LET session == _sessions[sessionId] IN
    IF session.startTime = 0 THEN "SessionNotFound"
    ELSE IF ~_authorizedTheaters[sessionId][sender] THEN "UnauthorizedTheater"
    ELSE IF session.voteCount < MIN_VOTES_FOR_DECRYPTION THEN "InsufficientVotes"
    ELSE IF session.decryptionRequested THEN "DecryptionAlreadyRequested"
    ELSE "ok"

\* mutant of requestDecryptionError: the vote threshold is checked before the still-active check
requestDecryptionError_votesFirst(sessionId, sender) ==
    LET session == _sessions[sessionId] IN
    IF session.startTime = 0 THEN "SessionNotFound"
    ELSE IF ~_authorizedTheaters[sessionId][sender] THEN "UnauthorizedTheater"
    ELSE IF session.voteCount < MIN_VOTES_FOR_DECRYPTION THEN "InsufficientVotes"
    ELSE IF session.isActive /\ blockTimestamp <= session.endTime THEN "SessionStillActive"
    ELSE IF session.decryptionRequested THEN "DecryptionAlreadyRequested"
    ELSE "ok"

\* mutant of requestDecryptionError: the requested flag is not checked
requestDecryptionError_noRequestedCheck(sessionId, sender) ==
    LET session == _sessions[sessionId] IN
    IF session.startTime = 0 THEN "SessionNotFound"
    ELSE IF ~_authorizedTheaters[sessionId][sender] THEN "UnauthorizedTheater"
    ELSE IF session.isActive /\ blockTimestamp <= session.endTime THEN "SessionStillActive"
    ELSE IF session.voteCount < MIN_VOTES_FOR_DECRYPTION THEN "InsufficientVotes"
    ELSE "ok"

\* the error requestDecryption reverts with, or "ok"
requestDecryptionError(sessionId, sender) ==
    LET session == _sessions[sessionId] IN
    IF session.startTime = 0 THEN "SessionNotFound"
    ELSE IF ~_authorizedTheaters[sessionId][sender] THEN "UnauthorizedTheater"
    ELSE IF session.isActive /\ blockTimestamp <= session.endTime THEN "SessionStillActive"
    ELSE IF session.voteCount < MIN_VOTES_FOR_DECRYPTION THEN "InsufficientVotes"
    ELSE IF session.decryptionRequested THEN "DecryptionAlreadyRequested"
    ELSE "ok"

\* mutant of requestDecryption: the requester is not granted the accumulators
requestDecryption_noGrant(sender, sessionId) ==
    LET err == requestDecryptionError(sessionId, sender) IN
    IF err # "ok" THEN Revert("requestDecryption", sessionId, sender, err)
    ELSE /\ _sessions' = [_sessions EXCEPT ![sessionId] =
                [@ EXCEPT !.decryptionRequested = TRUE]]
         /\ last' = Call("requestDecryption", sessionId, sender, "ok")
         /\ UNCHANGED <<blockTimestamp, _nextSessionId, _decryptedResults, _hasVoted,
                        _authorizedTheaters, voteLog>>

\* mutant of requestDecryption: the request also clears the active flag
requestDecryption_endsSession(sender, sessionId) ==
    LET err == requestDecryptionError(sessionId, sender) IN
    IF err # "ok" THEN Revert("requestDecryption", sessionId, sender, err)
    ELSE /\ _sessions' = [_sessions EXCEPT ![sessionId] =
                AllowAggregates([@ EXCEPT !.decryptionRequested = TRUE, !.isActive = FALSE], sender)]
         /\ last' = Call("requestDecryption", sessionId, sender, "ok")
         /\ UNCHANGED <<blockTimestamp, _nextSessionId, _decryptedResults, _hasVoted,
                        _authorizedTheaters, voteLog>>

requestDecryption(sender, sessionId) ==
    LET err == requestDecryptionError(sessionId, sender) IN
    IF err # "ok" THEN Revert("requestDecryption", sessionId, sender, err)
    ELSE /\ _sessions' = [_sessions EXCEPT ![sessionId] =
                AllowAggregates([@ EXCEPT !.decryptionRequested = TRUE], sender)]
         /\ last' = Call("requestDecryption", sessionId, sender, "ok")
         /\ UNCHANGED <<blockTimestamp, _nextSessionId, _decryptedResults, _hasVoted,
                        _authorizedTheaters, voteLog>>

(* ------------------------------ endSession ---------------------------- *)
\* mutant of endSessionError: any address of the authorization set may end the session
endSessionError_anyAuthorized(sessionId, sender) ==
    LET session == _sessions[sessionId] IN
    IF session.startTime = 0 THEN "SessionNotFound"
    ELSE IF ~_authorizedTheaters[sessionId][sender] THEN "OnlyTheaterCompany"
    ELSE "ok"

\* mutant of endSessionError: a session already ended cannot be ended again
endSessionError_onlyWhileActive(sessionId, sender) ==
    LET session == _sessions[sessionId] IN
    IF session.startTime = 0 THEN "SessionNotFound"
    ELSE IF sender # session.theaterCompany THEN "OnlyTheaterCompany"
    ELSE IF ~session.isActive THEN "SessionNotActive"
    ELSE "ok"

\* the error endSession reverts with, or "ok"
endSessionError(sessionId, sender) ==
    LET session == _sessions[sessionId] IN
    IF session.startTime = 0 THEN "SessionNotFound"
    ELSE IF sender # session.theaterCompany THEN "OnlyTheaterCompany"
    ELSE "ok"

\* mutant of endSession: the active flag is toggled instead of cleared
endSession_toggle(sender, sessionId) ==
    LET err == endSessionError(sessionId, sender) IN
    IF err # "ok" THEN Revert("endSession", sessionId, sender, err)
    ELSE /\ _sessions' = [_sessions EXCEPT ![sessionId].isActive = ~@]
         /\ last' = Call("endSession", sessionId, sender, "ok")
         /\ UNCHANGED <<blockTimestamp, _nextSessionId, _decryptedResults, _hasVoted,
                        _authorizedTheaters, voteLog>>

endSession(sender, sessionId) ==
    LET err == endSessionError(sessionId, sender) IN
    IF err # "ok" THEN Revert("endSession", sessionId, sender, err)
    ELSE /\ _sessions' = [_sessions EXCEPT ![sessionId].isActive = FALSE]
         /\ last' = Call("endSession", sessionId, sender, "ok")
         /\ UNCHANGED <<blockTimestamp, _nextSessionId, _decryptedResults, _hasVoted,
                        _authorizedTheaters, voteLog>>

(* ------------------------ storeDecryptedResults ----------------------- *)
\* mutant of storeDecryptedResultsError: the completed flag is not checked
storeDecryptedResultsError_noCompletedCheck(sessionId, sender) ==
    LET session == _sessions[sessionId] IN
    IF session.startTime = 0 THEN "SessionNotFound"
    ELSE IF ~_authorizedTheaters[sessionId][sender] THEN "UnauthorizedTheater"
    ELSE IF ~session.decryptionRequested THEN "Decryption not requested"
    ELSE "ok"

\* mutant of storeDecryptedResultsError: the requested flag is not checked
storeDecryptedResultsError_noRequestedCheck(sessionId, sender) ==
    LET session == _sessions[sessionId] IN
    IF session.startTime = 0 THEN "SessionNotFound"
    ELSE IF ~_authorizedTheaters[sessionId][sender] THEN "UnauthorizedTheater"
    ELSE IF session.decryptionCompleted THEN "Results already stored"
    ELSE "ok"

\* mutant of storeDecryptedResultsError: the caller's authorization is not checked
storeDecryptedResultsError_noAuthCheck(sessionId, sender) ==
    LET session == _sessions[sessionId] IN
    IF session.startTime = 0 THEN "SessionNotFound"
    ELSE IF ~session.decryptionRequested THEN "Decryption not requested"
    ELSE IF session.decryptionCompleted THEN "Results already stored"
    ELSE "ok"

\* the error storeDecryptedResults reverts with, or "ok"
storeDecryptedResultsError(sessionId, sender) ==
    LET session == _sessions[sessionId] IN
    IF session.startTime = 0 THEN "SessionNotFound"
    ELSE IF ~_authorizedTheaters[sessionId][sender] THEN "UnauthorizedTheater"
    ELSE IF ~session.decryptionRequested THEN "Decryption not requested"
    ELSE IF session.decryptionCompleted THEN "Results already stored"
    ELSE "ok"

\* uint16(voteCount): the explicit conversion keeps the low 16 bits
Uint16(n) == n % Uint16Modulus

\* the division total / uint16(voteCount) of the event's averages panics on a
\* zero divisor; it is evaluated only when voteCount > 0
AveragePanics(voteCount) == voteCount > 0 /\ Uint16(voteCount) = 0

\* voteCount > 0 ? total / uint16(voteCount) : 0
Average(total, voteCount) ==
    IF voteCount > 0 THEN total \div Uint16(voteCount) ELSE 0

\* the averages carried by the DecryptionCompleted event
DecryptionCompleted(totals, voteCount) ==
    [ avgPlotTension |-> Average(totals[1], voteCount),
      avgPerformance |-> Average(totals[2], voteCount),
      avgStageDesign |-> Average(totals[3], voteCount),
      avgPacing |-> Average(totals[4], voteCount) ]

\* mutant of storeDecryptedResults: the first two totals are stored in each other's place
storeDecryptedResults_swapped(sender, sessionId, totals) ==
    LET err == storeDecryptedResultsError(sessionId, sender) IN
    IF err # "ok" THEN Revert("storeDecryptedResults", sessionId, sender, err)
    ELSE IF AveragePanics(_sessions[sessionId].voteCount)
         THEN Revert("storeDecryptedResults", sessionId, sender, "Panic(0x12)")
    ELSE /\ _decryptedResults' = [_decryptedResults EXCEPT ![sessionId] =
                [ totalPlotTension |-> totals[2], totalPerformance |-> totals[1],
                  totalStageDesign |-> totals[3], totalPacing |-> totals[4] ]]
         /\ _sessions' = [_sessions EXCEPT ![sessionId].decryptionCompleted = TRUE]
         /\ last' = Emit("storeDecryptedResults", sessionId, sender, totals,
                         DecryptionCompleted(totals, _sessions[sessionId].voteCount))
         /\ UNCHANGED <<blockTimestamp, _nextSessionId, _hasVoted, _authorizedTheaters,
                        voteLog>>

storeDecryptedResults(sender, sessionId, totals) ==
    LET err == storeDecryptedResultsError(sessionId, sender) IN
    IF err # "ok" THEN Revert("storeDecryptedResults", sessionId, sender, err)
    ELSE IF AveragePanics(_sessions[sessionId].voteCount)
         THEN Revert("storeDecryptedResults", sessionId, sender, "Panic(0x12)")
    ELSE /\ _decryptedResults' = [_decryptedResults EXCEPT ![sessionId] =
                [ totalPlotTension |-> totals[1], totalPerformance |-> totals[2],
                  totalStageDesign |-> totals[3], totalPacing |-> totals[4] ]]
         /\ _sessions' = [_sessions EXCEPT ![sessionId].decryptionCompleted = TRUE]
         /\ last' = Emit("storeDecryptedResults", sessionId, sender, totals,
                         DecryptionCompleted(totals, _sessions[sessionId].voteCount))
         /\ UNCHANGED <<blockTimestamp, _nextSessionId, _hasVoted, _authorizedTheaters,
                        voteLog>>

(* --------------------------- read operations -------------------------- *)
\* the outcome of a view call: it has no sender-dependent behaviour, `arg` is
\* its address argument (if any) and `ret` the value it returns
View(op, sessionId, arg, result, ret) ==
    [op |-> op, sessionId |-> sessionId, sender |-> ZeroAddress, result |-> result,
     arg |-> arg, ret |-> ret]

\* a view call reads storage and writes nothing
ViewStep(op, sessionId, arg, result, ret) ==
    /\ last' = View(op, sessionId, arg, result, IF result = "ok" THEN ret ELSE <<>>)
    /\ UNCHANGED <<blockTimestamp, stateVars>>

\* hasVoted: a bare mapping lookup, no existence check
hasVoted(sessionId, voter) ==
    ViewStep("hasVoted", sessionId, voter, "ok", _hasVoted[sessionId][voter])

\* isAuthorized: a bare mapping lookup, no existence check
isAuthorized(sessionId, theaterAddress) ==
    ViewStep("isAuthorized", sessionId, theaterAddress, "ok",
             _authorizedTheaters[sessionId][theaterAddress])

\* mutant of getSessionInfoError: the existence check is missing
getSessionInfoError_noCheck(sessionId) == "ok"

\* the error getSessionInfo reverts with, or "ok"
getSessionInfoError(sessionId) ==
    IF _sessions[sessionId].startTime = 0 THEN "SessionNotFound" ELSE "ok"

getSessionInfo(sessionId) ==
    LET session == _sessions[sessionId] IN
    ViewStep("getSessionInfo", sessionId, ZeroAddress, getSessionInfoError(sessionId),
             [ title |-> session.title, venue |-> session.venue,
               startTime |-> session.startTime, endTime |-> session.endTime,
               theaterCompany |-> session.theaterCompany,
               voteCount |-> session.voteCount, isActive |-> session.isActive,
               decryptionRequested |-> session.decryptionRequested,
               decryptionCompleted |-> session.decryptionCompleted ])

\* the error getEncryptedAggregates reverts with, or "ok"
getEncryptedAggregatesError(sessionId) ==
    IF _sessions[sessionId].startTime = 0 THEN "SessionNotFound" ELSE "ok"

\* getEncryptedAggregates returns the four handles
getEncryptedAggregates(sessionId) ==
    LET session == _sessions[sessionId] IN
    ViewStep("getEncryptedAggregates", sessionId, ZeroAddress,
             getEncryptedAggregatesError(sessionId),
             << session.aggregatedPlotTension.handle,
                session.aggregatedPerformance.handle,
                session.aggregatedStageDesign.handle,
                session.aggregatedPacing.handle >>)

getTotalSessions ==
    ViewStep("getTotalSessions", 0, ZeroAddress, "ok", _nextSessionId)

\* mutant of getDecryptedResultsError: the requested flag is tested instead of the completed flag
getDecryptedResultsError_requestedFlag(sessionId) ==
    LET session == _sessions[sessionId] IN
    IF session.startTime = 0 THEN "SessionNotFound"
    ELSE IF ~session.decryptionRequested THEN "Results not yet decrypted"
    ELSE IF AveragePanics(session.voteCount) THEN "Panic(0x12)"
    ELSE "ok"

\* the error getDecryptedResults reverts with, or "ok"; the division of the
\* averages panics on a zero divisor
getDecryptedResultsError(sessionId) ==
    LET session == _sessions[sessionId] IN
    IF session.startTime = 0 THEN "SessionNotFound"
    ELSE IF ~session.decryptionCompleted THEN "Results not yet decrypted"
    ELSE IF AveragePanics(session.voteCount) THEN "Panic(0x12)"
    ELSE "ok"

\* the nine values getDecryptedResults returns
getDecryptedResultsReturn(sessionId) ==
    LET results == _decryptedResults[sessionId]
        voteCount == _sessions[sessionId].voteCount
    IN
    [ totalPlotTension |-> results.totalPlotTension,
      totalPerformance |-> results.totalPerformance,
      totalStageDesign |-> results.totalStageDesign,
      totalPacing |-> results.totalPacing,
      avgPlotTension |-> Average(results.totalPlotTension, voteCount),
      avgPerformance |-> Average(results.totalPerformance, voteCount),
      avgStageDesign |-> Average(results.totalStageDesign, voteCount),
      avgPacing |-> Average(results.totalPacing, voteCount),
      voteCount |-> voteCount ]

getDecryptedResults(sessionId) ==
    LET err == getDecryptedResultsError(sessionId) IN
    ViewStep("getDecryptedResults", sessionId, ZeroAddress, err,
             IF err = "ok" THEN getDecryptedResultsReturn(sessionId) ELSE <<>>)

(* ----------------------------- time ----------------------------------- *)
\* a later block is mined
AdvanceTime ==
    /\ blockTimestamp < MaxTime
    /\ blockTimestamp' = blockTimestamp + 1
    /\ last' = NoCall
    /\ UNCHANGED stateVars

\* createSession called by one of `senders` while a slot of `ids` is next
CreateOp(ids, senders) ==
    /\ _nextSessionId \in ids
    /\ \E sender \in senders, title \in Titles, venue \in Venues,
          startTime \in StartTimes, endTime \in EndTimes :
          createSession(sender, title, venue, startTime, endTime)

\* every other transaction and call over the session ids `ids`, sent by and
\* about the accounts `senders`, and the passing of time
SessionOps(ids, senders) ==
    \/ \E sender \in senders, sessionId \in ids, ratings \in RatingInputs :
          submitVote(sender, sessionId, ratings)
    \/ \E sender \in senders, sessionId \in ids, theaterAddress \in senders :
          authorizeTheater(sender, sessionId, theaterAddress)
    \/ \E sender \in senders, sessionId \in ids :
          requestDecryption(sender, sessionId)
    \/ \E sender \in senders, sessionId \in ids :
          endSession(sender, sessionId)
    \/ \E sender \in senders, sessionId \in ids, totals \in TotalInputs :
          storeDecryptedResults(sender, sessionId, totals)
    \/ \E sessionId \in ids, voter \in senders : hasVoted(sessionId, voter)
    \/ \E sessionId \in ids, theaterAddress \in senders :
          isAuthorized(sessionId, theaterAddress)
    \/ \E sessionId \in ids : getSessionInfo(sessionId)
    \/ \E sessionId \in ids : getEncryptedAggregates(sessionId)
    \/ getTotalSessions
    \/ \E sessionId \in ids : getDecryptedResults(sessionId)
    \/ AdvanceTime

\* the transactions and blocks over the session ids `ids`
NextOn(ids) == CreateOp(ids, Address) \/ SessionOps(ids, Address)

Next == NextOn(SingleSession)

Spec == Init /\ [][Next]_vars

\* two sessions side by side, every call made by the accounts of PairSenders
PairSenders == {1}

NextPair == CreateOp(SessionIds, PairSenders) \/ SessionOps(SessionIds, PairSenders)

SpecPair == Init /\ [][NextPair]_vars

\* the votes cast by accounts outside Address before the modelled calls begin:
\* the largest count a uint16 holds
EarlierVotes == Uint16Modulus - 1

\* the aggregate of dimension `dim` after EarlierVotes additions of a zero rating
EarlierAggregate(sessionId, dim) ==
    [handle |-> <<sessionId, dim, EarlierVotes>>, plain |-> 0, allowed |-> {ContractAddress}]

\* the contract after createSession by account 1 (window 1 .. MaxTime - 1) and
\* EarlierVotes successful submitVote calls, each by a different account outside
\* Address and each rating every dimension zero
InitManyVotes ==
    /\ blockTimestamp = 1
    /\ _nextSessionId = 1
    /\ _sessions = [id \in SessionIds |->
          IF id # 0 THEN EmptySession
          ELSE [EmptySession EXCEPT
                  !.title = "Hamlet Preview", !.venue = "Small Theater",
                  !.startTime = 1, !.endTime = MaxTime - 1,
                  !.theaterCompany = 1, !.isActive = TRUE,
                  !.voteCount = EarlierVotes,
                  !.aggregatedPlotTension = EarlierAggregate(0, PlotTension),
                  !.aggregatedPerformance = EarlierAggregate(0, Performance),
                  !.aggregatedStageDesign = EarlierAggregate(0, StageDesign),
                  !.aggregatedPacing = EarlierAggregate(0, Pacing)]]
    /\ _decryptedResults = [id \in SessionIds |-> EmptyResults]
    /\ _hasVoted = [id \in SessionIds |-> [a \in Address |-> FALSE]]
    /\ _authorizedTheaters = [id \in SessionIds |-> [a \in Address |-> id = 0 /\ a = 1]]
    /\ voteLog = [id \in SessionIds |->
          [count |-> IF id = 0 THEN EarlierVotes ELSE 0, sums |-> <<0, 0, 0, 0>>]]
    /\ last = NoCall

NextManyVotes == SessionOps(SingleSession, Address)

SpecManyVotes == InitManyVotes /\ [][NextManyVotes]_vars

(* ====================================================================== *)
(* Observers used by the properties                                       *)
(* ====================================================================== *)
\* the existence test every operation applies (non-zero startTime)
SessionExists(sessionId) == _sessions[sessionId].startTime # 0

\* the addresses whose has-voted flag is set
Voters(sessionId) == { a \in Address : _hasVoted[sessionId][a] }

\* the time window test of _validateVote
InVotingWindow(sessionId) ==
    /\ blockTimestamp >= _sessions[sessionId].startTime
    /\ blockTimestamp <= _sessions[sessionId].endTime

\* the four accumulators of a session, by dimension
Aggregates(sessionId) ==
    << _sessions[sessionId].aggregatedPlotTension,
       _sessions[sessionId].aggregatedPerformance,
       _sessions[sessionId].aggregatedStageDesign,
       _sessions[sessionId].aggregatedPacing >>

\* the step is a call of `op` (every transaction records itself in last)
IsCall(op) == last'.op = op

(* ====================================================================== *)
(* Properties                                                             *)
(* ====================================================================== *)

\* C1: in every reachable state and for every session, voteCount equals the
\* number of successful submitVote calls on the session and the number of
\* addresses whose has-voted flag is set.
C1_VoteCountMatchesVoters ==
    \A id \in SessionIds :
        /\ _sessions[id].voteCount = voteLog[id].count
        /\ _sessions[id].voteCount = Cardinality(Voters(id))

\* C1 witness: a second vote has just been counted.
C1_Witness ==
    /\ last.op = "submitVote" /\ last.result = "ok"
    /\ _sessions[last.sessionId].voteCount = 2
    /\ Cardinality(Voters(last.sessionId)) = 2

\* C2 as stated: requestDecryption never succeeds on a session whose isActive
\* flag is still true, not even past endTime.
C2_Original ==
    (last.op = "requestDecryption" /\ _sessions[last.sessionId].isActive)
        => last.result # "ok"

\* C2 amended: for an authorized caller on an existing session whose isActive
\* flag is true, requestDecryption is rejected with SessionStillActive exactly
\* while the current time is <= endTime; past endTime the flag does not block
\* the request and no endSession is needed.
C2_ActiveBlocksOnlyUntilEndTime ==
    ( /\ last.op = "requestDecryption"
      /\ SessionExists(last.sessionId)
      /\ _authorizedTheaters[last.sessionId][last.sender]
      /\ _sessions[last.sessionId].isActive )
        => ( last.result = "SessionStillActive"
                <=> blockTimestamp <= _sessions[last.sessionId].endTime )

\* C2 witness: a request succeeded past endTime on a session never ended.
C2_Witness ==
    /\ last.op = "requestDecryption" /\ last.result = "ok"
    /\ _sessions[last.sessionId].isActive
    /\ blockTimestamp > _sessions[last.sessionId].endTime

\* C3 as stated: a request by an authorized address on a session that was
\* ended manually is rejected while the current time is still <= endTime.
C3_Original ==
    ( /\ last.op = "requestDecryption"
      /\ SessionExists(last.sessionId)
      /\ _authorizedTheaters[last.sessionId][last.sender]
      /\ ~_sessions[last.sessionId].isActive
      /\ blockTimestamp <= _sessions[last.sessionId].endTime )
        => last.result # "ok"

\* C3 amended: either condition suffices.  A request by an authorized address
\* on an existing session is rejected with SessionStillActive if and only if
\* the session is active and the current time is <= endTime; on a session
\* ended manually it is never rejected as still active, whatever the time.
C3_EitherConditionSuffices ==
    ( /\ last.op = "requestDecryption"
      /\ SessionExists(last.sessionId)
      /\ _authorizedTheaters[last.sessionId][last.sender] )
        => /\ last.result = "SessionStillActive"
                <=> ( /\ _sessions[last.sessionId].isActive
                      /\ blockTimestamp <= _sessions[last.sessionId].endTime )
           /\ ~_sessions[last.sessionId].isActive
                => last.result \in {"ok", "InsufficientVotes", "DecryptionAlreadyRequested"}

\* C3 witness: a request succeeded on a manually ended session before endTime passed.
C3_Witness ==
    /\ last.op = "requestDecryption" /\ last.result = "ok"
    /\ ~_sessions[last.sessionId].isActive
    /\ blockTimestamp <= _sessions[last.sessionId].endTime

\* C4 as stated: a submitVote by an address that has already voted in the
\* session fails with AlreadyVoted whatever the session state.
C4_Original ==
    ( /\ last.op = "submitVote"
      /\ last.result # "ok"
      /\ _hasVoted[last.sessionId][last.sender] )
        => last.result = "AlreadyVoted"

\* C4 amended: a submitVote by an address that has already voted in the
\* session always fails and changes nothing (voteCount is not incremented);
\* the error is AlreadyVoted while the session is active and the time is
\* within [startTime, endTime], and SessionNotActive otherwise.
C4_SecondVoteAlwaysFails ==
    [][ \A id \in SessionIds, a \in Address :
          ( /\ IsCall("submitVote")
            /\ last'.sessionId = id /\ last'.sender = a
            /\ _hasVoted[id][a] )
              => /\ last'.result =
                       IF _sessions[id].isActive /\ InVotingWindow(id)
                       THEN "AlreadyVoted" ELSE "SessionNotActive"
                 /\ UNCHANGED stateVars ]_vars

\* C4 witness: a second vote was rejected with AlreadyVoted.
C4_Witness ==
    /\ last.op = "submitVote" /\ last.result = "AlreadyVoted"
    /\ _hasVoted[last.sessionId][last.sender]
    /\ _sessions[last.sessionId].voteCount = 1

\* C5: on an existing session submitVote fails with SessionNotActive and
\* changes nothing whenever the time is before startTime or after endTime or
\* the session was marked inactive; no vote is accepted in such a state.
C5_NoVoteOutsideWindow ==
    [][ \A id \in SessionIds :
          ( /\ IsCall("submitVote")
            /\ last'.sessionId = id
            /\ SessionExists(id)
            /\ (~_sessions[id].isActive \/ ~InVotingWindow(id)) )
              => /\ last'.result = "SessionNotActive"
                 /\ UNCHANGED stateVars ]_vars

\* C5 witness: a vote was rejected after endTime on a session still flagged active.
C5_Witness ==
    /\ last.op = "submitVote" /\ last.result = "SessionNotActive"
    /\ _sessions[last.sessionId].isActive
    /\ blockTimestamp > _sessions[last.sessionId].endTime

\* C6: once results are stored, every later storeDecryptedResults by an
\* authorized address fails with "Results already stored" and leaves the
\* totals and the flags unchanged; a call succeeds only if none succeeded before.
C6_StoreAtMostOnce ==
    [][ \A id \in SessionIds :
          ( /\ IsCall("storeDecryptedResults")
            /\ last'.sessionId = id )
              => /\ ( _sessions[id].decryptionCompleted
                      /\ _authorizedTheaters[id][last'.sender] )
                       => /\ last'.result = "Results already stored"
                          /\ UNCHANGED stateVars
                 /\ last'.result = "ok" => ~_sessions[id].decryptionCompleted ]_vars

\* C6 witness: an authorized address other than the creator lost the race.
C6_Witness ==
    /\ last.op = "storeDecryptedResults" /\ last.result = "Results already stored"
    /\ last.sender # _sessions[last.sessionId].theaterCompany
    /\ _authorizedTheaters[last.sessionId][last.sender]

\* C7: for an authorized caller on a closed session with decryptionRequested
\* false, requestDecryption fails with InsufficientVotes when voteCount is
\* below MIN_VOTES_FOR_DECRYPTION and succeeds otherwise.
C7_VoteThreshold ==
    [][ \A id \in SessionIds :
          ( /\ IsCall("requestDecryption")
            /\ last'.sessionId = id
            /\ SessionExists(id)
            /\ _authorizedTheaters[id][last'.sender]
            /\ ~(_sessions[id].isActive /\ blockTimestamp <= _sessions[id].endTime)
            /\ ~_sessions[id].decryptionRequested )
              => last'.result =
                    IF _sessions[id].voteCount < MIN_VOTES_FOR_DECRYPTION
                    THEN "InsufficientVotes" ELSE "ok" ]_vars

\* C7 witness: a request on a closed session without votes was rejected.
C7_Witness ==
    /\ last.op = "requestDecryption" /\ last.result = "InsufficientVotes"
    /\ _sessions[last.sessionId].voteCount = 0
    /\ ~_sessions[last.sessionId].isActive

\* C8 as stated: the plaintext of each accumulator equals the exact
\* (unbounded) sum of the ratings of that dimension of the successful votes.
C8_Original ==
    \A id \in SessionIds : \A d \in 1..4 :
        Aggregates(id)[d].plain = voteLog[id].sums[d]

\* C9 as stated (restricted to sessions holding at least one vote): no
\* external address holds a permission on a current accumulator handle of a
\* session that can still accept votes.
C9_Original ==
    \A id \in SessionIds : \A d \in 1..4 : \A a \in Address :
        ( /\ _sessions[id].isActive
          /\ blockTimestamp <= _sessions[id].endTime
          /\ _sessions[id].voteCount >= 1 )
            => ~FHE_isAllowed(Aggregates(id)[d], a)

\* C10: endSession and authorizeTheater on an existing session succeed only
\* for the creator; any other caller, authorized or not, is rejected with
\* OnlyTheaterCompany and the state is unchanged.
C10_OnlyCreator ==
    [][ \A id \in SessionIds :
          ( /\ (IsCall("endSession") \/ IsCall("authorizeTheater"))
            /\ last'.sessionId = id )
              => /\ ( SessionExists(id) /\ last'.sender # _sessions[id].theaterCompany )
                       => /\ last'.result = "OnlyTheaterCompany"
                          /\ UNCHANGED stateVars
                 /\ last'.result = "ok"
                       => ( SessionExists(id) /\ last'.sender = _sessions[id].theaterCompany ) ]_vars

\* C10 witness: an authorized address that is not the creator was refused endSession.
C10_Witness ==
    /\ last.op = "endSession" /\ last.result = "OnlyTheaterCompany"
    /\ _authorizedTheaters[last.sessionId][last.sender]
    /\ last.sender # _sessions[last.sessionId].theaterCompany

(* ---------------------------------------------------------------------- *)
\* C11: getDecryptedResults on an existing session fails with "Results not
\* yet decrypted" whenever decryptionCompleted is false, before any request
\* as well as between requestDecryption and storeDecryptedResults.
C11_NoResultsBeforeCompletion ==
    \A id \in SessionIds :
        ( /\ last.op = "getDecryptedResults"
          /\ last.sessionId = id
          /\ SessionExists(id)
          /\ ~_sessions[id].decryptionCompleted )
            => last.result = "Results not yet decrypted"

\* a getDecryptedResults call made between the request and the storing
C11_Witness ==
    /\ last.op = "getDecryptedResults"
    /\ _sessions[last.sessionId].decryptionRequested
    /\ ~_sessions[last.sessionId].decryptionCompleted
    /\ last.result = "Results not yet decrypted"

(* ---------------------------------------------------------------------- *)
\* the floor of total / voteCount with the full counter, zero for no votes
FullAverage(total, voteCount) ==
    IF voteCount = 0 THEN 0 ELSE total \div voteCount

\* C12: once decryptionCompleted is set, getDecryptedResults succeeds and
\* returns the stored totals, the vote count and, per dimension, the average
\* floor(total / voteCount) taken with the full voteCount (zero when voteCount
\* is zero).
C12_Original ==
    \A id \in SessionIds :
        ( /\ last.op = "getDecryptedResults"
          /\ last.sessionId = id
          /\ _sessions[id].decryptionCompleted )
            => /\ last.result = "ok"
               /\ LET results == _decryptedResults[id]
                      voteCount == _sessions[id].voteCount
                  IN
                  /\ last.ret.voteCount = voteCount
                  /\ last.ret.totalPlotTension = results.totalPlotTension
                  /\ last.ret.totalPerformance = results.totalPerformance
                  /\ last.ret.totalStageDesign = results.totalStageDesign
                  /\ last.ret.totalPacing = results.totalPacing
                  /\ last.ret.avgPlotTension = FullAverage(results.totalPlotTension, voteCount)
                  /\ last.ret.avgPerformance = FullAverage(results.totalPerformance, voteCount)
                  /\ last.ret.avgStageDesign = FullAverage(results.totalStageDesign, voteCount)
                  /\ last.ret.avgPacing = FullAverage(results.totalPacing, voteCount)

(* ---------------------------------------------------------------------- *)
\* the read operations that take a session id
SessionReads ==
    {"getSessionInfo", "hasVoted", "isAuthorized", "getEncryptedAggregates",
     "getDecryptedResults"}

\* C13 as stated: every read operation that takes a session id reverts with
\* SessionNotFound when the session does not exist, and no read operation
\* changes any state.
C13_Original ==
    [][ /\ (last'.op \in SessionReads \/ IsCall("getTotalSessions"))
            => UNCHANGED <<blockTimestamp, stateVars>>
        /\ (last'.op \in SessionReads /\ ~SessionExists(last'.sessionId))
            => last'.result = "SessionNotFound" ]_vars

\* C13, amended: getSessionInfo, getEncryptedAggregates and getDecryptedResults
\* revert with SessionNotFound when the session does not exist; hasVoted and
\* isAuthorized never revert and return the stored flag whether or not the
\* session exists; getTotalSessions never reverts; no read operation changes
\* any state.
C13_ReadsOfMissingSessions ==
    [][ /\ (last'.op \in SessionReads \/ IsCall("getTotalSessions"))
            => UNCHANGED <<blockTimestamp, stateVars>>
        /\ ( /\ last'.op \in {"getSessionInfo", "getEncryptedAggregates",
                              "getDecryptedResults"}
             /\ ~SessionExists(last'.sessionId) )
            => last'.result = "SessionNotFound"
        /\ IsCall("hasVoted")
            => /\ last'.result = "ok"
               /\ last'.ret = _hasVoted[last'.sessionId][last'.arg]
        /\ IsCall("isAuthorized")
            => /\ last'.result = "ok"
               /\ last'.ret = _authorizedTheaters[last'.sessionId][last'.arg]
        /\ IsCall("getTotalSessions") => last'.result = "ok" ]_vars

\* isAuthorized answers true for the creator of a session that does not exist
\* (one created with start time zero)
C13_Witness ==
    /\ last.op = "isAuthorized"
    /\ ~SessionExists(last.sessionId)
    /\ last.result = "ok"
    /\ last.ret = TRUE

(* ---------------------------------------------------------------------- *)
\* the lifecycle flags of a session
Flags(sessionId) ==
    << _sessions[sessionId].isActive,
       _sessions[sessionId].decryptionRequested,
       _sessions[sessionId].decryptionCompleted >>

\* C14 as stated: a created session is always in one of the states Created,
\* Ended, DecryptionRequested (not active) or ResultsStored (not active); no
\* reachable state has decryptionRequested true while isActive is true.
C14_Original ==
    \A id \in SessionIds :
        _sessions[id].theaterCompany # ZeroAddress
            => Flags(id) \in { <<TRUE, FALSE, FALSE>>, <<FALSE, FALSE, FALSE>>,
                               <<FALSE, TRUE, FALSE>>, <<FALSE, TRUE, TRUE>> }

\* C14, amended: decryptionRequested becomes true only on a session that is
\* not active or whose end time has passed, and decryptionCompleted only on a
\* session with decryptionRequested true; a state with decryptionRequested and
\* isActive both true is reachable, but only at a time past endTime, and a
\* session with decryptionCompleted always has decryptionRequested.
C14_LifecycleOrder ==
    [][ \A id \in SessionIds :
          LET before == _sessions[id]
              after == _sessions'[id]
          IN
          /\ (after.decryptionRequested /\ ~before.decryptionRequested)
                => (~before.isActive \/ blockTimestamp > before.endTime)
          /\ (after.decryptionCompleted /\ ~before.decryptionCompleted)
                => before.decryptionRequested
          /\ (after.decryptionRequested /\ after.isActive)
                => blockTimestamp' > after.endTime
          /\ after.decryptionCompleted => after.decryptionRequested ]_vars

\* results stored on a session that was never ended
C14_Witness ==
    \E id \in SessionIds : Flags(id) = <<TRUE, TRUE, TRUE>>

CreatedSessions == { id \in SessionIds : _sessions[id].theaterCompany # ZeroAddress }

\* C16: session ids are assigned sequentially from zero: createSession returns
\* the number of sessions created before it and adds one to the counter, the
\* created sessions are exactly the ids below the counter, getTotalSessions
\* returns the number of createSession calls made so far, and no other
\* operation changes the counter.
C16_SequentialIds ==
    [][ /\ IsCall("createSession")
            => /\ last'.sessionId = Cardinality(CreatedSessions)
               /\ last'.sessionId = _nextSessionId
               /\ _nextSessionId' = _nextSessionId + 1
        /\ ~IsCall("createSession") => UNCHANGED _nextSessionId
        /\ CreatedSessions' = { id \in SessionIds : id < _nextSessionId' }
        /\ IsCall("getTotalSessions")
            => /\ last'.result = "ok"
               /\ last'.ret = Cardinality(CreatedSessions') ]_vars

\* getTotalSessions answers two after the second session was created
C16_Witness ==
    /\ last.op = "getTotalSessions"
    /\ last.ret = 2
    /\ CreatedSessions = {0, 1}

(* ---------------------------------------------------------------------- *)
\* C17: immediately after createSession the new session has isActive true,
\* voteCount 0, decryptionRequested false, decryptionCompleted false,
\* theaterCompany equal to the caller, and the caller and nobody else is in
\* the session's authorization set.
C17_FreshSession ==
    last.op = "createSession"
        => LET session == _sessions[last.sessionId] IN
           /\ last.result = "ok"
           /\ session.isActive
           /\ session.voteCount = 0
           /\ ~session.decryptionRequested
           /\ ~session.decryptionCompleted
           /\ session.theaterCompany = last.sender
           /\ { a \in Address : _authorizedTheaters[last.sessionId][a] } = {last.sender}

\* the state right after a session was created by the second account
C17_Witness ==
    /\ last.op = "createSession"
    /\ last.sender = 2
    /\ _sessions[last.sessionId].theaterCompany = 2

(* ---------------------------------------------------------------------- *)
\* C18: in every reachable state decryptionCompleted implies
\* decryptionRequested and decryptionRequested implies voteCount >=
\* MIN_VOTES_FOR_DECRYPTION, so a session with stored results has voteCount > 0.
C18_CompletedImpliesRequestedImpliesVotes ==
    \A id \in SessionIds :
        /\ _sessions[id].decryptionCompleted => _sessions[id].decryptionRequested
        /\ _sessions[id].decryptionRequested
              => _sessions[id].voteCount >= MIN_VOTES_FOR_DECRYPTION
        /\ _sessions[id].decryptionCompleted => _sessions[id].voteCount > 0

\* results stored for a session with exactly the minimum number of votes
C18_Witness ==
    /\ last.op = "storeDecryptedResults" /\ last.result = "ok"
    /\ _sessions[last.sessionId].decryptionCompleted
    /\ _sessions[last.sessionId].voteCount = MIN_VOTES_FOR_DECRYPTION

(* ---------------------------------------------------------------------- *)
\* C19: the lifecycle flags of a created session never revert: isActive only
\* goes from true to false, decryptionRequested and decryptionCompleted only
\* from false to true, so each changes at most once.
C19_FlagsMonotone ==
    [][ \A id \in CreatedSessions :
          /\ _sessions'[id].isActive => _sessions[id].isActive
          /\ _sessions[id].decryptionRequested => _sessions'[id].decryptionRequested
          /\ _sessions[id].decryptionCompleted => _sessions'[id].decryptionCompleted ]_vars

\* endSession succeeds again on a session already ended, with results stored
C19_Witness ==
    /\ last.op = "endSession" /\ last.result = "ok"
    /\ Flags(last.sessionId) = <<FALSE, TRUE, TRUE>>

(* ---------------------------------------------------------------------- *)
\* C20 as stated: after any successful submitVote the plaintext value of each
\* accumulator is >= its value before the vote.
C20_Original ==
    [][ \A id \in SessionIds :
          (IsCall("submitVote") /\ last'.sessionId = id /\ last'.result = "ok")
            => \A d \in 1..4 : Aggregates(id)'[d].plain >= Aggregates(id)[d].plain
      ]_vars

(* ---------------------------------------------------------------------- *)
\* C21 as stated: every average returned by getDecryptedResults lies in the
\* range 0..100, whatever totals an authorized caller stored.
C21_Original ==
    (last.op = "getDecryptedResults" /\ last.result = "ok")
        => /\ last.ret.avgPlotTension \in 0..100
           /\ last.ret.avgPerformance \in 0..100
           /\ last.ret.avgStageDesign \in 0..100
           /\ last.ret.avgPacing \in 0..100

(* ---------------------------------------------------------------------- *)
\* C22 as stated: each of the four submitVote preconditions has an error of
\* its own, so the error names the precondition that failed: SessionNotFound
\* only for a missing session, SessionNotActive only for a cleared isActive
\* flag, AlreadyVoted only for a caller who has voted.
C22_Original ==
    last.op = "submitVote"
        => /\ last.result = "SessionNotFound" => ~SessionExists(last.sessionId)
           /\ last.result = "SessionNotActive" => ~_sessions[last.sessionId].isActive
           /\ last.result = "AlreadyVoted" => _hasVoted[last.sessionId][last.sender]

\* C22, amended: submitVote reports three distinct errors for its four
\* preconditions: SessionNotFound exactly when the session does not exist,
\* SessionNotActive exactly when the session exists and either isActive is
\* false or the time is outside [startTime, endTime] (the two cannot be told
\* apart), and AlreadyVoted only when the session exists, is active, the time
\* is within the window and the caller has voted.
C22_ThreeErrorsForFourChecks ==
    last.op = "submitVote"
        => LET id == last.sessionId IN
           /\ last.result = "SessionNotFound" <=> ~SessionExists(id)
           /\ last.result = "SessionNotActive"
                <=> (SessionExists(id) /\ (~_sessions[id].isActive \/ ~InVotingWindow(id)))
           /\ last.result = "AlreadyVoted"
                => /\ SessionExists(id) /\ _sessions[id].isActive /\ InVotingWindow(id)
                   /\ _hasVoted[id][last.sender]

\* a vote before the start time of an active session is refused as not active
C22_Witness ==
    /\ last.op = "submitVote" /\ last.result = "SessionNotActive"
    /\ _sessions[last.sessionId].isActive
    /\ blockTimestamp < _sessions[last.sessionId].startTime

(* ---------------------------------------------------------------------- *)
\* C23: when several preconditions of a rejected operation fail at once, the
\* error is that of the first failing check: submitVote checks exists,
\* active, time window, not already voted; requestDecryption checks exists,
\* caller authorized, not still active, enough votes, not already requested;
\* storeDecryptedResults checks exists, caller authorized, decryption
\* requested, not already stored.
C23_FirstFailingCheck ==
    \A id \in SessionIds :
      LET session == _sessions[id]
          authorized == _authorizedTheaters[id][last.sender]
          stillActive == session.isActive /\ blockTimestamp <= session.endTime
          enoughVotes == session.voteCount >= MIN_VOTES_FOR_DECRYPTION
      IN
      (last.sessionId = id /\ last.result # "ok")
        => /\ last.op = "submitVote"
                => /\ ~SessionExists(id) => last.result = "SessionNotFound"
                   /\ (SessionExists(id) /\ ~session.isActive)
                         => last.result = "SessionNotActive"
                   /\ (SessionExists(id) /\ session.isActive /\ ~InVotingWindow(id))
                         => last.result = "SessionNotActive"
                   /\ ( /\ SessionExists(id) /\ session.isActive /\ InVotingWindow(id)
                        /\ _hasVoted[id][last.sender] )
                         => last.result = "AlreadyVoted"
           /\ last.op = "requestDecryption"
                => /\ ~SessionExists(id) => last.result = "SessionNotFound"
                   /\ (SessionExists(id) /\ ~authorized)
                         => last.result = "UnauthorizedTheater"
                   /\ (SessionExists(id) /\ authorized /\ stillActive)
                         => last.result = "SessionStillActive"
                   /\ (SessionExists(id) /\ authorized /\ ~stillActive /\ ~enoughVotes)
                         => last.result = "InsufficientVotes"
                   /\ ( /\ SessionExists(id) /\ authorized /\ ~stillActive /\ enoughVotes
                        /\ session.decryptionRequested )
                         => last.result = "DecryptionAlreadyRequested"
           /\ last.op = "storeDecryptedResults"
                => /\ ~SessionExists(id) => last.result = "SessionNotFound"
                   /\ (SessionExists(id) /\ ~authorized)
                         => last.result = "UnauthorizedTheater"
                   /\ (SessionExists(id) /\ authorized /\ ~session.decryptionRequested)
                         => last.result = "Decryption not requested"
                   /\ ( /\ SessionExists(id) /\ authorized /\ session.decryptionRequested
                        /\ session.decryptionCompleted )
                         => last.result = "Results already stored"

\* an authorized request on an active session without votes: the still-active
\* check and the vote threshold both fail, the former is reported
C23_Witness ==
    /\ last.op = "requestDecryption" /\ last.result = "SessionStillActive"
    /\ _authorizedTheaters[last.sessionId][last.sender]
    /\ _sessions[last.sessionId].voteCount < MIN_VOTES_FOR_DECRYPTION

(* ---------------------------------------------------------------------- *)
\* C24: requestDecryption and storeDecryptedResults on an existing session by
\* an address outside the session's authorization set fail with
\* UnauthorizedTheater and change nothing, in every session state; called by
\* an address of the set, creator or not, they are never refused as
\* unauthorized.
C24_AuthorizationSetGates ==
    [][ \A id \in SessionIds :
          ( /\ last'.op \in {"requestDecryption", "storeDecryptedResults"}
            /\ last'.sessionId = id
            /\ SessionExists(id) )
            => IF ~_authorizedTheaters[id][last'.sender]
               THEN last'.result = "UnauthorizedTheater" /\ UNCHANGED stateVars
               ELSE last'.result # "UnauthorizedTheater" ]_vars

\* an outsider refused on a session whose results are already stored
C24_Witness ==
    /\ last.op = "storeDecryptedResults" /\ last.result = "UnauthorizedTheater"
    /\ _sessions[last.sessionId].decryptionCompleted
    /\ ~_authorizedTheaters[last.sessionId][last.sender]

(* ---------------------------------------------------------------------- *)
\* C25: requestDecryption succeeds at most once per session: once
\* decryptionRequested is true, every requestDecryption by an authorized
\* address fails with DecryptionAlreadyRequested and changes nothing.
C25_RequestAtMostOnce ==
    [][ \A id \in SessionIds :
          ( /\ IsCall("requestDecryption")
            /\ last'.sessionId = id
            /\ _sessions[id].decryptionRequested
            /\ _authorizedTheaters[id][last'.sender] )
            => /\ last'.result = "DecryptionAlreadyRequested"
               /\ UNCHANGED stateVars ]_vars

\* a second request on a session whose active flag was never cleared
C25_Witness ==
    /\ last.op = "requestDecryption" /\ last.result = "DecryptionAlreadyRequested"
    /\ _sessions[last.sessionId].isActive

(* ---------------------------------------------------------------------- *)
\* C26: endSession by the creator of an existing session succeeds at any time
\* and in any lifecycle state, sets isActive to false and changes nothing
\* else; on a session already ended it succeeds and leaves the whole state
\* unchanged.
C26_EndSessionIdempotent ==
    [][ \A id \in SessionIds :
          ( /\ IsCall("endSession")
            /\ last'.sessionId = id
            /\ SessionExists(id)
            /\ last'.sender = _sessions[id].theaterCompany )
            => /\ last'.result = "ok"
               /\ _sessions' = [_sessions EXCEPT ![id].isActive = FALSE]
               /\ UNCHANGED <<_nextSessionId, _decryptedResults, _hasVoted,
                              _authorizedTheaters, voteLog>>
               /\ ~_sessions[id].isActive => UNCHANGED stateVars ]_vars

\* a session ended before its start time
C26_Witness ==
    /\ last.op = "endSession" /\ last.result = "ok"
    /\ blockTimestamp < _sessions[last.sessionId].startTime
    /\ ~_sessions[last.sessionId].isActive

(* ---------------------------------------------------------------------- *)
\* C27: permission follows the latest handle: in every reachable state the
\* current handle of each of the four accumulators of every created session
\* is the one produced by the session's last addition (its version equals the
\* number of votes), and the contract itself is allowed on it.
C27_ContractAllowedOnCurrentHandles ==
    \A id \in CreatedSessions : \A d \in 1..4 :
        /\ Aggregates(id)[d].handle = <<id, d, _sessions[id].voteCount>>
        /\ FHE_isAllowed(Aggregates(id)[d], ContractAddress)

\* the accumulators after the second addition
C27_Witness ==
    /\ last.op = "submitVote" /\ last.result = "ok"
    /\ \A d \in 1..4 :
          /\ Aggregates(last.sessionId)[d].handle = <<last.sessionId, d, 2>>
          /\ FHE_isAllowed(Aggregates(last.sessionId)[d], ContractAddress)

(* ---------------------------------------------------------------------- *)
\* C28: a successful requestDecryption leaves the requester allowed on the
\* current handles of all four accumulators, and from then on no operation
\* changes an accumulator's handle or value or removes a permission from it,
\* so the requester's permission stays valid.
C28_RequesterPermissionIsFinal ==
    [][ \A id \in SessionIds :
          LET before == Aggregates(id)
              after == Aggregates(id)'
          IN
          /\ (IsCall("requestDecryption") /\ last'.sessionId = id /\ last'.result = "ok")
                => \A d \in 1..4 : FHE_isAllowed(after[d], last'.sender)
          /\ (_sessions[id].decryptionRequested /\ after # before)
                => \A d \in 1..4 :
                      /\ after[d].handle = before[d].handle
                      /\ after[d].plain = before[d].plain
                      /\ before[d].allowed \subseteq after[d].allowed
      ]_vars

\* an authorized address other than the creator has requested and is allowed
\* on accumulators that hold votes
C28_Witness ==
    /\ last.op = "requestDecryption" /\ last.result = "ok"
    /\ last.sender # _sessions[last.sessionId].theaterCompany
    /\ \A d \in 1..4 :
          /\ Aggregates(last.sessionId)[d].handle[3] >= 1
          /\ FHE_isAllowed(Aggregates(last.sessionId)[d], last.sender)

(* ---------------------------------------------------------------------- *)
\* C29: a permission granted by authorizeTheater is bound to the handles
\* current at the call: a successful submitVote replaces the four handles,
\* leaves the authorization set as it was and leaves no account (only the
\* contract) allowed on the new handles.
C29_GrantsDoNotSurviveVotes ==
    [][ \A id \in SessionIds :
          (IsCall("submitVote") /\ last'.sessionId = id /\ last'.result = "ok")
            => /\ _authorizedTheaters' = _authorizedTheaters
               /\ \A d \in 1..4 :
                     /\ Aggregates(id)'[d].handle # Aggregates(id)[d].handle
                     /\ \A a \in Address : ~FHE_isAllowed(Aggregates(id)'[d], a)
      ]_vars

\* an address authorized before a vote is in the set but not allowed on the
\* accumulators after it
C29_Witness ==
    /\ last.op = "submitVote" /\ last.result = "ok"
    /\ \E a \in Address :
          /\ a # _sessions[last.sessionId].theaterCompany
          /\ _authorizedTheaters[last.sessionId][a]
          /\ \A d \in 1..4 : ~FHE_isAllowed(Aggregates(last.sessionId)[d], a)

(* ---------------------------------------------------------------------- *)
\* C30: once decryptionRequested is true for a session no submitVote on it
\* succeeds, and its voteCount, has-voted flags and the handles and values of
\* its four accumulators never change again.
C30_FrozenAfterRequest ==
    [][ \A id \in SessionIds :
          _sessions[id].decryptionRequested
            => LET before == Aggregates(id)
                   after == Aggregates(id)'
               IN
               /\ (IsCall("submitVote") /\ last'.sessionId = id) => last'.result # "ok"
               /\ _sessions'[id].voteCount = _sessions[id].voteCount
               /\ _hasVoted'[id] = _hasVoted[id]
               /\ voteLog'[id] = voteLog[id]
               /\ after # before
                     => \A d \in 1..4 :
                           /\ after[d].handle = before[d].handle
                           /\ after[d].plain = before[d].plain ]_vars

\* an address that has not voted is refused after the request, within the
\* time window of the ended session
C30_Witness ==
    /\ last.op = "submitVote" /\ last.result = "SessionNotActive"
    /\ _sessions[last.sessionId].decryptionRequested
    /\ ~_hasVoted[last.sessionId][last.sender]
    /\ InVotingWindow(last.sessionId)

(* ---------------------------------------------------------------------- *)
\* the operations that take a session id and check that the session exists
ExistenceChecked ==
    {"submitVote", "authorizeTheater", "requestDecryption", "endSession",
     "storeDecryptedResults", "getSessionInfo", "getEncryptedAggregates",
     "getDecryptedResults"}

\* C31 as stated: every session created by createSession exists for all later
\* operations: no operation on an id below getTotalSessions() fails with
\* SessionNotFound, whatever startTime and endTime the creator passed.
C31_Original ==
    (last.op \in ExistenceChecked /\ last.sessionId < _nextSessionId)
        => last.result # "SessionNotFound"

(* ---------------------------------------------------------------------- *)
\* C32 as stated: in every state where a session has decryptionRequested true
\* and decryptionCompleted false, a storeDecryptedResults call by an
\* authorized address is not rejected, whatever the totals and the voteCount.
C32_Original ==
    \A id \in SessionIds :
        ( /\ last.op = "storeDecryptedResults"
          /\ last.sessionId = id
          /\ SessionExists(id)
          /\ _authorizedTheaters[id][last.sender]
          /\ _sessions[id].decryptionRequested
          /\ ~_sessions[id].decryptionCompleted )
            => last.result = "ok"

(* ---------------------------------------------------------------------- *)
\* C33: stored results are immutable: a successful storeDecryptedResults
\* stores exactly the four totals passed to it and emits the averages of
\* those totals; from then on the stored totals and voteCount never change,
\* and every getDecryptedResults returns those totals, that voteCount and the
\* same averages as the event.
C33_StoredResultsImmutable ==
    [][ \A id \in SessionIds :
          LET results == _decryptedResults'[id]
              voteCount == _sessions'[id].voteCount
          IN
          /\ ( /\ IsCall("storeDecryptedResults")
               /\ last'.sessionId = id /\ last'.result = "ok" )
                => /\ results.totalPlotTension = last'.arg[1]
                   /\ results.totalPerformance = last'.arg[2]
                   /\ results.totalStageDesign = last'.arg[3]
                   /\ results.totalPacing = last'.arg[4]
                   /\ last'.event.avgPlotTension = Average(last'.arg[1], voteCount)
                   /\ last'.event.avgPerformance = Average(last'.arg[2], voteCount)
                   /\ last'.event.avgStageDesign = Average(last'.arg[3], voteCount)
                   /\ last'.event.avgPacing = Average(last'.arg[4], voteCount)
          /\ _sessions[id].decryptionCompleted
                => /\ results = _decryptedResults[id]
                   /\ voteCount = _sessions[id].voteCount
          /\ ( /\ IsCall("getDecryptedResults")
               /\ last'.sessionId = id /\ last'.result = "ok" )
                => /\ last'.ret.voteCount = voteCount
                   /\ last'.ret.totalPlotTension = results.totalPlotTension
                   /\ last'.ret.totalPerformance = results.totalPerformance
                   /\ last'.ret.totalStageDesign = results.totalStageDesign
                   /\ last'.ret.totalPacing = results.totalPacing
                   /\ last'.ret.avgPlotTension = Average(results.totalPlotTension, voteCount)
                   /\ last'.ret.avgPerformance = Average(results.totalPerformance, voteCount)
                   /\ last'.ret.avgStageDesign = Average(results.totalStageDesign, voteCount)
                   /\ last'.ret.avgPacing = Average(results.totalPacing, voteCount)
      ]_vars

\* the results of two votes read back
C33_Witness ==
    /\ last.op = "getDecryptedResults" /\ last.result = "ok"
    /\ last.ret.voteCount = 2
    /\ last.ret.totalPlotTension = 255
    /\ last.ret.avgPlotTension = 127

(* ---------------------------------------------------------------------- *)
\* the transactions addressed to one session
SessionWrites ==
    {"submitVote", "authorizeTheater", "requestDecryption", "endSession",
     "storeDecryptedResults"}

\* C34: session isolation: an operation addressed to one session leaves the
\* Session record (metadata, flags, voteCount, accumulators), the has-voted
\* map, the authorization set and the stored results of every other session
\* unchanged, and createSession leaves every session created earlier unchanged.
C34_SessionIsolation ==
    [][ \A id \in SessionIds :
          ( \/ last'.op \in SessionWrites /\ last'.sessionId # id
            \/ IsCall("createSession") /\ id \in CreatedSessions )
            => /\ _sessions'[id] = _sessions[id]
               /\ _hasVoted'[id] = _hasVoted[id]
               /\ _authorizedTheaters'[id] = _authorizedTheaters[id]
               /\ _decryptedResults'[id] = _decryptedResults[id]
               /\ voteLog'[id] = voteLog[id] ]_vars

\* a vote cast in the second session by an address that has not voted in the
\* first, whose lifecycle has already moved on
C34_Witness ==
    /\ last.op = "submitVote" /\ last.result = "ok" /\ last.sessionId = 1
    /\ _hasVoted[1][last.sender]
    /\ ~_hasVoted[0][last.sender]
    /\ SessionExists(0)
    /\ ~_sessions[0].isActive

(* ---------------------------------------------------------------------- *)
\* a Session record with the permissions on its accumulators left out
WithoutAcl(session) ==
    [session EXCEPT !.aggregatedPlotTension = [@ EXCEPT !.allowed = {}],
                    !.aggregatedPerformance = [@ EXCEPT !.allowed = {}],
                    !.aggregatedStageDesign = [@ EXCEPT !.allowed = {}],
                    !.aggregatedPacing = [@ EXCEPT !.allowed = {}]]

\* C35: within its session a successful operation changes only its own
\* fields: submitVote the caller's has-voted flag, voteCount and the four
\* accumulators; authorizeTheater the authorization entry of the address and
\* the permissions; endSession isActive; requestDecryption
\* decryptionRequested and the permissions; storeDecryptedResults the stored
\* totals and decryptionCompleted.
C35_OperationFrames ==
    [][ \A id \in SessionIds :
          (last'.sessionId = id /\ last'.result = "ok")
            => /\ IsCall("submitVote")
                    => /\ [_sessions'[id] EXCEPT
                              !.voteCount = _sessions[id].voteCount,
                              !.aggregatedPlotTension = _sessions[id].aggregatedPlotTension,
                              !.aggregatedPerformance = _sessions[id].aggregatedPerformance,
                              !.aggregatedStageDesign = _sessions[id].aggregatedStageDesign,
                              !.aggregatedPacing = _sessions[id].aggregatedPacing]
                            = _sessions[id]
                       /\ _hasVoted' = [_hasVoted EXCEPT ![id][last'.sender] = TRUE]
                       /\ UNCHANGED <<_nextSessionId, _decryptedResults, _authorizedTheaters>>
               /\ IsCall("authorizeTheater")
                    => /\ WithoutAcl(_sessions'[id]) = WithoutAcl(_sessions[id])
                       /\ \A a \in Address :
                             _authorizedTheaters[id][a] => _authorizedTheaters'[id][a]
                       /\ UNCHANGED <<_nextSessionId, _decryptedResults, _hasVoted, voteLog>>
               /\ IsCall("endSession")
                    => /\ [_sessions'[id] EXCEPT !.isActive = _sessions[id].isActive]
                            = _sessions[id]
                       /\ UNCHANGED <<_nextSessionId, _decryptedResults, _hasVoted,
                                      _authorizedTheaters, voteLog>>
               /\ IsCall("requestDecryption")
                    => /\ WithoutAcl([_sessions'[id] EXCEPT
                              !.decryptionRequested = _sessions[id].decryptionRequested])
                            = WithoutAcl(_sessions[id])
                       /\ UNCHANGED <<_nextSessionId, _decryptedResults, _hasVoted,
                                      _authorizedTheaters, voteLog>>
               /\ IsCall("storeDecryptedResults")
                    => /\ [_sessions'[id] EXCEPT
                              !.decryptionCompleted = _sessions[id].decryptionCompleted]
                            = _sessions[id]
                       /\ UNCHANGED <<_nextSessionId, _hasVoted, _authorizedTheaters, voteLog>>
      ]_vars

\* an address authorized after the request, on a session that holds a vote
C35_Witness ==
    /\ last.op = "authorizeTheater" /\ last.result = "ok"
    /\ _sessions[last.sessionId].voteCount = 1
    /\ _sessions[last.sessionId].decryptionRequested

(* ---------------------------------------------------------------------- *)
\* C36: nothing is revoked or deleted: a has-voted flag that is true stays
\* true, an address of a session's authorization set stays in it, voteCount
\* never decreases, and the title, venue, startTime, endTime and creator of a
\* created session never change.
C36_NothingRevoked ==
    [][ \A id \in SessionIds :
          /\ \A a \in Address :
                /\ _hasVoted[id][a] => _hasVoted'[id][a]
                /\ _authorizedTheaters[id][a] => _authorizedTheaters'[id][a]
          /\ _sessions'[id].voteCount >= _sessions[id].voteCount
          /\ id \in CreatedSessions
                => /\ _sessions'[id].title = _sessions[id].title
                   /\ _sessions'[id].venue = _sessions[id].venue
                   /\ _sessions'[id].startTime = _sessions[id].startTime
                   /\ _sessions'[id].endTime = _sessions[id].endTime
                   /\ _sessions'[id].theaterCompany = _sessions[id].theaterCompany
      ]_vars

\* the creator authorizes again an address that is already authorized and
\* has voted
C36_Witness ==
    /\ last.op = "authorizeTheater" /\ last.result = "ok"
    /\ \E a \in Address :
          /\ a # last.sender
          /\ _hasVoted[last.sessionId][a]
          /\ _authorizedTheaters[last.sessionId][a]
    /\ _sessions[last.sessionId].decryptionCompleted

(* ---------------------------------------------------------------------- *)
\* C37: the k-th successful submitVote on a session emits VoteSubmitted with
\* the caller as voter and newVoteCount = k, the value of voteCount after the
\* increment.
C37_VoteSubmittedEvent ==
    (last.op = "submitVote" /\ last.result = "ok")
        => /\ last.event.voter = last.sender
           /\ last.event.newVoteCount = voteLog[last.sessionId].count
           /\ last.event.newVoteCount = _sessions[last.sessionId].voteCount

\* the event of the second vote of a session
C37_Witness ==
    /\ last.op = "submitVote" /\ last.result = "ok"
    /\ last.event.voter = last.sender
    /\ last.event.newVoteCount = 2

====
